---- MODULE Spec2Model ----
(***************************************************************************)
(* The type-erasure adapter of plugins/layout.rs: the blanket              *)
(* impl<T: Layout> UntypedLayout for T, called from several threads on     *)
(* shared plugin instances.                                                *)
(***************************************************************************)
EXTENDS Integers, Sequences, FiniteSets, TLC

\* ------------------------------------------------------------------ bounds
NumThreads == 2
MaxCalls == 2
MaxDim == 2
MaxDepth == 2

Threads == 1..NumThreads

\* ------------------------------------------------- plugin types (fixtures)
\* Grid keeps the default registry_key_dyn; Fade overrides it.
PluginTypes == {"Grid", "Fade"}
Keys == {"grid", "fade"}
TypeIds == {"(u32, u32)", "(i64, i64)", "f32"}

\* one constructed instance per plugin type, named after its type
Insts == PluginTypes
TypeOf(i) == i

\* <T as CustomProcessor>::registry_key()
StaticKey(T) == IF T = "Grid" THEN "grid" ELSE "fade"

\* <T as CustomProcessor>::Arg
ArgShape(T) == IF T = "Grid" THEN "(u32, u32)" ELSE "f32"

\* whether T overrides registry_key_dyn
Overrides(T) == T = "Fade"

Components == 1..MaxDim

\* the values of a type, as the sequence of their numeric components
ValuesOf(tid) ==
    IF tid = "f32" THEN {<<x>> : x \in Components}
    ELSE {<<r, r + 1>> : r \in Components}

\* ------------------------------------------------------------------- state
VARIABLES
    pc,           \* per thread: position inside the current call
    op,           \* per thread: the method the caller invoked
    self,         \* per thread: the receiver
    arg,          \* per thread: the &dyn Any (or &Arg) passed by the caller
    via,          \* per thread: "handle", or the plugin type looked up in the registry
    seen,         \* per thread: the two operands assert_eq! evaluated
    ref,          \* per thread: the Option<&Arg> produced by downcast_ref
    ret,          \* per thread: how the call ended
    trace,        \* per thread: the methods invoked during the call, in order
    delivered,    \* per thread: the arguments the typed do_stuff received in the call
    received,     \* per instance: the plugin's observable state
    dynAnswer,    \* per instance: what an overriding registry_key_dyn answers now
    keyQueriesOk, \* per instance: erased identity queries that returned so far
    registry,     \* key -> stored erased layout
    calls,        \* calls started so far
    panicMode,    \* the build's panic strategy
    halted        \* the process was aborted

vars == <<pc, op, self, arg, via, seen, ref, ret, trace, delivered, received,
          dynAnswer, keyQueriesOk, registry, calls, panicMode, halted>>

callVars == <<op, self, arg, via>>

NoInst == "none"
NoArg == [tid |-> "()", val |-> <<>>]
NoRef == [some |-> FALSE, val |-> <<>>]
NoRet == [kind |-> "none", err |-> "", val |-> "", msg |-> <<>>]

\* ------------------------------------------------------ the code's pieces

\* self.registry_key_dyn(): the default delegates to the static key
RegistryKeyDyn(i) ==
    IF Overrides(TypeOf(i)) THEN dynAnswer[i] ELSE StaticKey(TypeOf(i))

Disagree(i) == RegistryKeyDyn(i) # StaticKey(TypeOf(i))

\* a value behind &dyn Any: the data and the type id its vtable reports
Wrap(tid, v) == [tid |-> tid, val |-> v]

Opaques == UNION {{Wrap(tid, v) : v \in ValuesOf(tid)} : tid \in TypeIds}

\* variant: recovery by the value's layout instead of its TypeId
DowncastRefByShape(p, tid) ==
    IF \E v \in ValuesOf(tid) : Len(v) = Len(p.val)
    THEN [some |-> TRUE, val |-> p.val]
    ELSE NoRef

\* variant: the recovered value has its components in the other order
DowncastRefReversed(p, tid) ==
    IF p.tid = tid
    THEN [some |-> TRUE, val |-> [k \in 1..Len(p.val) |-> p.val[Len(p.val) + 1 - k]]]
    ELSE NoRef

\* <dyn Any>::downcast_ref::<T::Arg>()
DowncastRef(p, tid) ==
    IF p.tid = tid THEN [some |-> TRUE, val |-> p.val] ELSE NoRef

\* variant: the comparison always passes
AssertEqIgnored(l, r) == TRUE

\* variant: the static key compared with itself
AssertEqSelf(l, r) == l = l

\* assert_eq!(left, right)
AssertEq(l, r) == l = r

\* variant: a debug-only assertion, compiled out
AssertionFiresNever(i) == FALSE

\* variant: the assertion is skipped once a query on the instance returned
AssertionFiresOnce(i) == keyQueriesOk[i] = 0

\* the assertion is unconditional: not debug-only, not cached
AssertionFires(i) == TRUE

\* variant: the dynamic key is read again and returned
ErasedKeyValueDyn(i) == RegistryKeyDyn(i)

\* the value registry_key returns after the assertion
ErasedKeyValue(i) == StaticKey(TypeOf(i))

ModulePath == "membrane_video_compositor_common::plugins::layout"

\* the panic! of the unwrap_or_else closure
CastPanic ==
    [kind |-> "panic", err |-> "ArgumentTypeMismatch", val |-> "",
     msg |-> <<"in ", ModulePath,
               ", expected a successful cast to user-defined Arg type. Something went seriously wrong here.">>]

\* the panic of a failed assert_eq!
AssertPanic(l, r) ==
    [kind |-> "panic", err |-> "IdentityMismatch", val |-> "",
     msg |-> <<"assertion left == right failed", l, r>>]

Ok(v) == [kind |-> "ok", err |-> "", val |-> v, msg |-> <<>>]

\* variant: the call resolves to the erased method
ResolveDoStuffErased == "UntypedLayout::do_stuff"

\* what self.do_stuff(..) names inside the impl: the bound T: Layout wins
ResolveDoStuff == "Layout::do_stuff"

\* variant: the recovered reference is kept in a slot shared by all calls
ForwardedArgOther(t) ==
    IF \E u \in Threads : u # t /\ ref[u].some
    THEN ref[CHOOSE u \in Threads : u # t /\ ref[u].some].val
    ELSE ref[t].val

\* the argument the adapter passes on
ForwardedArg(t) == ref[t].val

\* Layout::do_stuff(&self, arg): the plugin's effect, kept as a log
TypedDoStuff(state, v) == Append(state, v)

Count(s, x) == Cardinality({k \in 1..Len(s) : s[k] = x})

\* ------------------------------------------------------------------- Init
Init ==
    /\ pc = [t \in Threads |-> "idle"]
    /\ op = [t \in Threads |-> "none"]
    /\ self = [t \in Threads |-> NoInst]
    /\ arg = [t \in Threads |-> NoArg]
    /\ via = [t \in Threads |-> "handle"]
    /\ seen = [t \in Threads |-> <<>>]
    /\ ref = [t \in Threads |-> NoRef]
    /\ ret = [t \in Threads |-> NoRet]
    /\ trace = [t \in Threads |-> <<>>]
    /\ delivered = [t \in Threads |-> <<>>]
    /\ received = [i \in Insts |-> <<>>]
    /\ dynAnswer \in [{i \in Insts : Overrides(TypeOf(i))} -> Keys]
    /\ keyQueriesOk = [i \in Insts |-> 0]
    /\ registry = [k \in Keys |-> NoInst]
    /\ calls = 0
    /\ panicMode \in {"unwind", "abort"}
    /\ halted = FALSE

\* ---------------------------------------------------------------- actions

\* a panic: the call never returns; under panic=abort the process ends
Panicked(t, outcome) ==
    /\ pc' = [pc EXCEPT ![t] = "panicked"]
    /\ ret' = [ret EXCEPT ![t] = outcome]
    /\ halted' = (panicMode = "abort")

Enter(t, method, i, p, how, first) ==
    /\ ~halted
    /\ pc[t] = "idle"
    /\ calls < MaxCalls
    /\ calls' = calls + 1
    /\ op' = [op EXCEPT ![t] = method]
    /\ self' = [self EXCEPT ![t] = i]
    /\ arg' = [arg EXCEPT ![t] = p]
    /\ via' = [via EXCEPT ![t] = how]
    /\ trace' = [trace EXCEPT ![t] = <<method>>]
    /\ pc' = [pc EXCEPT ![t] = first]
    /\ UNCHANGED <<seen, ref, ret, delivered, received, dynAnswer, keyQueriesOk,
                   registry, panicMode, halted>>

\* a caller invokes the erased identity query on a handle
CallRegistryKey(t, i) ==
    /\ i \in Insts
    /\ Enter(t, "UntypedLayout::registry_key", i, NoArg, "handle", "key_assert")

\* assert_eq!(<Self as CustomProcessor>::registry_key(), self.registry_key_dyn())
KeyAssert(t) ==
    /\ ~halted
    /\ pc[t] = "key_assert"
    /\ LET l == StaticKey(TypeOf(self[t]))
           r == RegistryKeyDyn(self[t])
       IN /\ seen' = [seen EXCEPT ![t] = <<l, r>>]
          /\ trace' = [trace EXCEPT ![t] =
                 @ \o <<"CustomProcessor::registry_key", "CustomProcessor::registry_key_dyn">>]
          /\ IF AssertionFires(self[t]) /\ ~AssertEq(l, r)
             THEN Panicked(t, AssertPanic(l, r))
             ELSE /\ pc' = [pc EXCEPT ![t] = "key_ret"]
                  /\ UNCHANGED <<ret, halted>>
    /\ UNCHANGED <<callVars, ref, delivered, received, dynAnswer, keyQueriesOk,
                   registry, calls, panicMode>>

\* <Self as CustomProcessor>::registry_key() is the value returned
KeyReturn(t) ==
    /\ ~halted
    /\ pc[t] = "key_ret"
    /\ ret' = [ret EXCEPT ![t] = Ok(ErasedKeyValue(self[t]))]
    /\ trace' = [trace EXCEPT ![t] = Append(@, "CustomProcessor::registry_key")]
    /\ keyQueriesOk' = [keyQueriesOk EXCEPT ![self[t]] = @ + 1]
    /\ pc' = [pc EXCEPT ![t] = "done"]
    /\ UNCHANGED <<callVars, seen, ref, delivered, received, dynAnswer,
                   registry, calls, panicMode, halted>>

\* a caller invokes the erased apply on a handle
CallDoStuff(t, i, p) ==
    /\ p \in Opaques
    /\ Enter(t, "UntypedLayout::do_stuff", i, p, "handle", "downcast")

\* a caller retrieves the layout stored under T's static key and invokes the erased apply
LookupAndCallDoStuff(t, T, p) ==
    /\ registry[StaticKey(T)] # NoInst
    /\ Enter(t, "UntypedLayout::do_stuff", registry[StaticKey(T)], p, T, "downcast")

\* arg.downcast_ref().unwrap_or_else(|| panic!(..))
Downcast(t) ==
    /\ ~halted
    /\ pc[t] = "downcast"
    /\ LET r == DowncastRef(arg[t], ArgShape(TypeOf(self[t])))
       IN /\ trace' = [trace EXCEPT ![t] = Append(@, "Any::downcast_ref")]
          /\ ref' = [ref EXCEPT ![t] = r]
          /\ IF r.some
             THEN /\ pc' = [pc EXCEPT ![t] = "forward"]
                  /\ UNCHANGED <<ret, halted>>
             ELSE Panicked(t, CastPanic)
    /\ UNCHANGED <<callVars, seen, delivered, received, dynAnswer, keyQueriesOk,
                   registry, calls, panicMode>>

\* self.do_stuff(<the recovered reference>)
Forward(t) ==
    /\ ~halted
    /\ pc[t] = "forward"
    /\ IF ResolveDoStuff = "Layout::do_stuff"
       THEN /\ received' = [received EXCEPT ![self[t]] = TypedDoStuff(@, ForwardedArg(t))]
            /\ delivered' = [delivered EXCEPT ![t] = Append(@, ForwardedArg(t))]
            /\ trace' = [trace EXCEPT ![t] = Append(@, "Layout::do_stuff")]
            /\ ret' = [ret EXCEPT ![t] = Ok("()")]
            /\ pc' = [pc EXCEPT ![t] = "done"]
            /\ UNCHANGED <<arg, halted>>
       ELSE \* the erased method again, the reference coerced back to &dyn Any
            /\ trace' = [trace EXCEPT ![t] = Append(@, "UntypedLayout::do_stuff")]
            /\ arg' = [arg EXCEPT ![t] = Wrap(ArgShape(TypeOf(self[t])), ForwardedArg(t))]
            /\ IF Count(trace[t], "UntypedLayout::do_stuff") < MaxDepth
               THEN /\ pc' = [pc EXCEPT ![t] = "downcast"]
                    /\ UNCHANGED <<ret, halted>>
               ELSE \* stack exhausted: the process is killed
                    /\ pc' = [pc EXCEPT ![t] = "panicked"]
                    /\ ret' = [ret EXCEPT ![t] =
                           [kind |-> "abort", err |-> "StackOverflow", val |-> "", msg |-> <<>>]]
                    /\ halted' = TRUE
            /\ UNCHANGED <<received, delivered>>
    /\ UNCHANGED <<op, self, via, seen, ref, dynAnswer, keyQueriesOk,
                   registry, calls, panicMode>>

\* a caller holding the concrete type invokes the typed apply directly
CallTypedDoStuff(t, i, v) ==
    /\ Enter(t, "Layout::do_stuff", i, Wrap(ArgShape(TypeOf(i)), v), "handle", "typed")

TypedBody(t) ==
    /\ ~halted
    /\ pc[t] = "typed"
    /\ received' = [received EXCEPT ![self[t]] = TypedDoStuff(@, arg[t].val)]
    /\ delivered' = [delivered EXCEPT ![t] = Append(@, arg[t].val)]
    /\ ret' = [ret EXCEPT ![t] = Ok("()")]
    /\ pc' = [pc EXCEPT ![t] = "done"]
    /\ UNCHANGED <<callVars, seen, ref, trace, dynAnswer, keyQueriesOk,
                   registry, calls, panicMode, halted>>

Reset(t) ==
    /\ pc' = [pc EXCEPT ![t] = "idle"]
    /\ op' = [op EXCEPT ![t] = "none"]
    /\ self' = [self EXCEPT ![t] = NoInst]
    /\ arg' = [arg EXCEPT ![t] = NoArg]
    /\ via' = [via EXCEPT ![t] = "handle"]
    /\ seen' = [seen EXCEPT ![t] = <<>>]
    /\ ref' = [ref EXCEPT ![t] = NoRef]
    /\ ret' = [ret EXCEPT ![t] = NoRet]
    /\ trace' = [trace EXCEPT ![t] = <<>>]
    /\ delivered' = [delivered EXCEPT ![t] = <<>>]

\* the caller goes on after a call that returned
Return(t) ==
    /\ ~halted
    /\ pc[t] = "done"
    /\ Reset(t)
    /\ UNCHANGED <<received, dynAnswer, keyQueriesOk, registry, calls, panicMode, halted>>

\* the registry stores the handle under the key its erased identity query returned
RegistryInsert(t) ==
    /\ ~halted
    /\ pc[t] = "done"
    /\ op[t] = "UntypedLayout::registry_key"
    /\ registry' = [registry EXCEPT ![ret[t].val] = self[t]]
    /\ Reset(t)
    /\ UNCHANGED <<received, dynAnswer, keyQueriesOk, calls, panicMode, halted>>

\* an overriding registry_key_dyn changes its answer
SetDynKey(i, k) ==
    /\ ~halted
    /\ Overrides(TypeOf(i))
    /\ dynAnswer[i] # k
    /\ dynAnswer' = [dynAnswer EXCEPT ![i] = k]
    /\ UNCHANGED <<pc, callVars, seen, ref, ret, trace, delivered, received,
                   keyQueriesOk, registry, calls, panicMode, halted>>

Next ==
    \/ \E t \in Threads, i \in Insts : CallRegistryKey(t, i)
    \/ \E t \in Threads : KeyAssert(t)
    \/ \E t \in Threads : KeyReturn(t)
    \/ \E t \in Threads, i \in Insts, p \in Opaques : CallDoStuff(t, i, p)
    \/ \E t \in Threads, T \in PluginTypes, p \in Opaques : LookupAndCallDoStuff(t, T, p)
    \/ \E t \in Threads : Downcast(t)
    \/ \E t \in Threads : Forward(t)
    \/ \E t \in Threads, i \in Insts :
           \E v \in ValuesOf(ArgShape(TypeOf(i))) : CallTypedDoStuff(t, i, v)
    \/ \E t \in Threads : TypedBody(t)
    \/ \E t \in Threads : Return(t)
    \/ \E t \in Threads : RegistryInsert(t)
    \/ \E i \in Insts, k \in Keys : SetDynKey(i, k)

Spec == Init /\ [][Next]_vars

\* ------------------------------------------------------------- properties

Erased(t) == op[t] = "UntypedLayout::do_stuff"
Query(t) == op[t] = "UntypedLayout::registry_key"
WrongType(t) == Erased(t) /\ arg[t].tid # ArgShape(TypeOf(self[t]))
RightType(t) == Erased(t) /\ arg[t].tid = ArgShape(TypeOf(self[t]))
Moved(t) == pc'[t] # pc[t]

\* C1: an erased apply whose payload is of another type than the plugin's Arg
\* ends in the ArgumentTypeMismatch panic: the typed apply is not invoked,
\* nothing is delivered to the plugin, and the call does not return.
C1_WrongTypeIsFatal ==
    \A t \in Threads :
        (WrongType(t) /\ pc[t] # "downcast") =>
            /\ pc[t] = "panicked"
            /\ ret[t].kind = "panic"
            /\ ret[t].err = "ArgumentTypeMismatch"
            /\ Count(trace[t], "Layout::do_stuff") = 0
            /\ delivered[t] = <<>>

C1_Witness ==
    \E t \in Threads :
        WrongType(t) /\ pc[t] = "panicked" /\ Len(arg[t].val) = 2 /\ TypeOf(self[t]) = "Grid"

\* C2: the step that completes an erased apply with a payload of the declared
\* type changes the plugin exactly as the typed apply called with the wrapped
\* value would, and the typed method received that value unchanged.
C2_ForwardingEquivalence ==
    [][\A t \in Threads :
          (RightType(t) /\ Moved(t) /\ pc'[t] = "done") =>
              /\ received'[self[t]] = TypedDoStuff(received[self[t]], arg[t].val)
              /\ delivered'[t] = <<arg[t].val>>
              /\ \A j \in Insts \ {self[t]} : received'[j] = received[j]]_vars

C2_Witness ==
    \E t \in Threads :
        /\ RightType(t) /\ pc[t] = "done" /\ TypeOf(self[t]) = "Grid"
        /\ received[self[t]] = <<arg[t].val>>

\* C3: an identity returned by the erased identity query equals the static
\* identity of the concrete type and the dynamic identity the instance
\* reported to that query.
C3_IdentityAgreement ==
    \A t \in Threads :
        (Query(t) /\ ret[t].kind = "ok") =>
            /\ Len(seen[t]) = 2
            /\ ret[t].val = StaticKey(TypeOf(self[t]))
            /\ ret[t].val = seen[t][1]
            /\ ret[t].val = seen[t][2]

C3_Witness ==
    \E t \in Threads :
        Query(t) /\ ret[t].kind = "ok" /\ Overrides(TypeOf(self[t]))

\* C4: an erased identity query that read a dynamic identity different from
\* the static one ends in the IdentityMismatch panic, carries no identity
\* value, and read the dynamic accessor once only (no retry); under
\* panic=abort the process is halted.
C4_IdentityMismatchIsFatal ==
    \A t \in Threads :
        (Query(t) /\ Len(seen[t]) = 2 /\ seen[t][1] # seen[t][2]) =>
            /\ pc[t] = "panicked"
            /\ ret[t].kind = "panic"
            /\ ret[t].err = "IdentityMismatch"
            /\ ret[t].val = ""
            /\ Count(trace[t], "CustomProcessor::registry_key_dyn") = 1
            /\ Count(trace[t], "CustomProcessor::registry_key") = 1
            /\ (panicMode = "abort" => halted)

C4_Witness ==
    \E t \in Threads :
        Query(t) /\ pc[t] = "panicked" /\ seen[t] = <<"fade", "grid">>

\* C5 as stated: on an instance whose static and dynamic identities disagree
\* no erased apply completes normally.
C5_Original ==
    [][\A t \in Threads :
          (Erased(t) /\ Disagree(self[t]) /\ pc[t] # "done") => pc'[t] # "done"]_vars

\* C5 amended: only the erased identity query checks identity: on an instance
\* whose identities disagree it never passes the assertion, while the erased
\* apply goes by the payload's type alone and, with a payload of the declared
\* type, reaches the typed apply once.
C5_OnlyQueryChecksIdentity ==
    [][\A t \in Threads :
          /\ (pc[t] = "key_assert" /\ Moved(t) /\ Disagree(self[t])) =>
                 (pc'[t] = "panicked" /\ ret'[t].err = "IdentityMismatch")
          /\ (pc[t] = "downcast" /\ Moved(t)) =>
                 (pc'[t] = "forward" <=> RightType(t))
          /\ (pc[t] = "forward" /\ Moved(t)) =>
                 (pc'[t] = "done" /\ Count(trace'[t], "Layout::do_stuff") = 1)]_vars

C5_Witness ==
    \E t \in Threads :
        /\ RightType(t) /\ pc[t] = "done" /\ Disagree(self[t])
        /\ delivered[t] = <<arg[t].val>>

\* C6: the diagnostic of the ArgumentTypeMismatch panic names the identity of
\* the plugin the call was made on.
C6_DiagnosticNamesPlugin ==
    \A t \in Threads :
        (ret[t].kind = "panic" /\ ret[t].err = "ArgumentTypeMismatch") =>
            \E k \in 1..Len(ret[t].msg) : ret[t].msg[k] = StaticKey(TypeOf(self[t]))

\* C7: a layout stored under the key its erased identity query returned is
\* the one retrieved by its type's static identity, and an erased apply on
\* the retrieved handle delivers the wrapped value to that instance as a
\* direct typed call does.
C7_RoundTrip ==
    /\ \A k \in Keys :
           registry[k] # NoInst => StaticKey(TypeOf(registry[k])) = k
    /\ \A t \in Threads :
           (Erased(t) /\ via[t] # "handle") =>
               /\ TypeOf(self[t]) = via[t]
               /\ (RightType(t) /\ pc[t] = "done") =>
                      /\ delivered[t] = <<arg[t].val>>
                      /\ \E k \in 1..Len(received[self[t]]) :
                             received[self[t]][k] = arg[t].val

C7_Witness ==
    \E t \in Threads :
        /\ via[t] = "Grid" /\ RightType(t) /\ pc[t] = "done"
        /\ registry["grid"] = self[t]
        /\ received[self[t]] = <<arg[t].val>>

\* C8: every erased identity query reads the dynamic accessor afresh and
\* asserts: a query that reads a disagreeing answer panics, whatever earlier
\* queries on the instance returned.
C8_AssertionOnEveryQuery ==
    [][\A t \in Threads :
          (pc[t] = "key_assert" /\ Moved(t)) =>
              /\ seen'[t] = <<StaticKey(TypeOf(self[t])), RegistryKeyDyn(self[t])>>
              /\ (pc'[t] = "panicked") <=> Disagree(self[t])]_vars

C8_Witness ==
    \E t \in Threads :
        Query(t) /\ pc[t] = "panicked" /\ keyQueriesOk[self[t]] > 0

\* C9: under any interleaving a plugin's state changes only by one call
\* delivering its own argument once; a call that panicked delivered nothing;
\* and a call in the adapter can always take its next step, whatever the
\* other calls are doing.
C9_NoInterference ==
    [][/\ \A i \in Insts :
              received'[i] # received[i] =>
                  \E t \in Threads :
                      /\ self[t] = i /\ Moved(t) /\ pc'[t] = "done"
                      /\ received'[i] = Append(received[i], arg[t].val)
                      /\ delivered'[t] = <<arg[t].val>>
                      /\ \A u \in Threads \ {t} : delivered'[u] = delivered[u]
       /\ \A t \in Threads :
              /\ (Erased(t) /\ pc'[t] = "panicked") => delivered'[t] = <<>>
              /\ (~halted' /\ pc'[t] \in {"downcast", "forward"}) =>
                     (ENABLED (Downcast(t) \/ Forward(t)))']_vars

C9_Witness ==
    \E t, u \in Threads :
        /\ t # u /\ self[t] = self[u] /\ RightType(t) /\ RightType(u)
        /\ arg[t] # arg[u]
        /\ pc[t] = "done" /\ pc[u] = "forward"
        /\ received[self[t]] = <<arg[t].val>>

\* C10: a completed erased apply made exactly the calls downcast_ref and the
\* typed do_stuff, never the erased do_stuff again; the erased identity query
\* invokes neither the typed apply nor the constructor and leaves every
\* plugin's state as it was.
C10_OneForwardingStep ==
    [][\A t \in Threads :
          /\ Count(trace'[t], "UntypedLayout::do_stuff") <= 1
          /\ (Erased(t) /\ Moved(t) /\ pc'[t] = "done") =>
                 trace'[t] = <<"UntypedLayout::do_stuff", "Any::downcast_ref", "Layout::do_stuff">>
          /\ (Query(t) /\ Moved(t)) =>
                 /\ received' = received
                 /\ Count(trace'[t], "Layout::do_stuff") = 0
                 /\ Count(trace'[t], "Layout::new") = 0]_vars

C10_Witness ==
    \E t, u \in Threads :
        /\ Erased(t) /\ pc[t] = "done" /\ Len(trace[t]) = 3
        /\ Query(u) /\ pc[u] = "done" /\ received[self[u]] = <<>>

====
